---- MODULE Spec2Model ----
(***************************************************************************)
(* FinFlow: the transaction ledger (app/services/transaction_service.py),  *)
(* its request schemas (app/schemas/transaction.py), the account service   *)
(* (app/services/account_service.py) with its schemas and its routes of    *)
(* the API and of the web pages, and the category classifier               *)
(* (app/services/ai/categorization_service.py).                            *)
(*                                                                         *)
(* Money is a whole number of the smallest unit (cents); the Decimal       *)
(* arithmetic of the code is exact on such values.  Text is a sequence of  *)
(* one-character strings, so that lower(), strip() and `in` are computed.  *)
(* Row ids are handed out by an increasing counter (a serial primary key). *)
(***************************************************************************)
EXTENDS Integers, Sequences, FiniteSets, TLC

\* ------------------------------------------------------------------ bounds
\* rows table transactions is ever given: next_id stops at MaxTransactions + 1
MaxTransactions == 2
TransactionIds == 1..MaxTransactions

\* items in one call of batch_categorize_transactions
MaxBatch == 2

\* ----------------------------------------------------------------- inputs
\* two owners; two account ids (a transfer has two ends; an own and a foreign
\* account); amounts of both signs and zero; one opening balance, not zero
Users == {1, 2}
AccountIds == {1, 2}
Amounts == {-1, 0, 1}
OpeningBalances == {1}

\* A datetime is a count of half days: day d begins at Midnight(d) and has its
\* middle at Noon(d).  A date is a day.
Days == {1, 2}

\* two requests are served side by side, each with a Session of its own
Workers == {1, 2}
Midnight(day) == 2 * day
Noon(day) == 2 * day + 1

\* An Optional[...] value is a set of at most one element: None is the empty set.
None == {}
Some(v) == {v}
The(o) == CHOOSE v \in o : TRUE

VARIABLES
    accounts,       \* table accounts: row id |-> [user_id, name, account_type, balance, is_active]
    transactions,   \* table transactions: the set of persisted rows
    next_id,        \* the next primary key of table transactions
    enabled,        \* categorization_service.enabled
    opening,        \* history: the balance each account was created with
    pc,             \* unit of work of the session: "idle" or "running"
    todo,           \* writes the running handler has still to issue
    staged,         \* writes the session holds, not yet committed
    unit,           \* all writes of the running handler, in program order
    classified,     \* a call of categorize_transaction, if any: its arguments, then its result
    concurrent,     \* per request running side by side: the unit of work it holds, if any
    dialect,        \* engine.dialect.name: the database DATABASE_URL names
    batch           \* a call of batch_categorize_transactions, if any: its arguments, then its result

vars == <<accounts, transactions, next_id, enabled, opening, pc, todo, staged, unit,
          classified, concurrent, dialect, batch>>
db == <<accounts, transactions, next_id>>
session == <<pc, todo, staged, unit>>

\* ------------------------------------------------------------------- text
Abs(x) == IF x < 0 THEN -x ELSE x

Upper == <<"A","B","C","D","E","F","G","H","I","J","K","L","M",
           "N","O","P","Q","R","S","T","U","V","W","X","Y","Z">>
Lowercase == <<"a","b","c","d","e","f","g","h","i","j","k","l","m",
           "n","o","p","q","r","s","t","u","v","w","x","y","z">>

\* str.lower() on one character
LowerChar(c) ==
    IF \E i \in 1..26 : Upper[i] = c
    THEN Lowercase[CHOOSE i \in 1..26 : Upper[i] = c]
    ELSE c

\* str.lower()
Lower(s) == [i \in 1..Len(s) |-> LowerChar(s[i])]

Whitespace == {" ", "\n", "\t"}

RECURSIVE LStrip(_)
LStrip(s) == IF s # <<>> /\ Head(s) \in Whitespace THEN LStrip(Tail(s)) ELSE s

RECURSIVE RStrip(_)
RStrip(s) ==
    IF s # <<>> /\ s[Len(s)] \in Whitespace
    THEN RStrip(SubSeq(s, 1, Len(s) - 1))
    ELSE s

\* str.strip()
Strip(s) == RStrip(LStrip(s))

\* keyword in text
Contains(text, keyword) ==
    \E i \in 0..(Len(text) - Len(keyword)) :
        SubSeq(text, i + 1, i + Len(keyword)) = keyword


\* ------------------------------------------------------------- classifier
STANDARD_CATEGORIES == <<
    "food_dining", "groceries", "transportation", "utilities", "housing",
    "healthcare", "entertainment", "shopping", "education", "travel",
    "income", "transfer", "other">>

\* the characters of a category name
Spelling(name) ==
    CASE name = "food_dining" -> <<"f","o","o","d","_","d","i","n","i","n","g">>
      [] name = "groceries" -> <<"g","r","o","c","e","r","i","e","s">>
      [] name = "transportation" -> <<"t","r","a","n","s","p","o","r","t","a","t","i","o","n">>
      [] name = "utilities" -> <<"u","t","i","l","i","t","i","e","s">>
      [] name = "housing" -> <<"h","o","u","s","i","n","g">>
      [] name = "healthcare" -> <<"h","e","a","l","t","h","c","a","r","e">>
      [] name = "entertainment" -> <<"e","n","t","e","r","t","a","i","n","m","e","n","t">>
      [] name = "shopping" -> <<"s","h","o","p","p","i","n","g">>
      [] name = "education" -> <<"e","d","u","c","a","t","i","o","n">>
      [] name = "travel" -> <<"t","r","a","v","e","l">>
      [] name = "income" -> <<"i","n","c","o","m","e">>
      [] name = "transfer" -> <<"t","r","a","n","s","f","e","r">>
      [] name = "other" -> <<"o","t","h","e","r">>

food_keywords == <<
    <<"r","e","s","t","a","u","r","a","n","t">>,
    <<"m","c","d","o","n","a","l","d">>,
    <<"b","u","r","g","e","r">>,
    <<"p","i","z","z","a">>,
    <<"c","a","f","e">>,
    <<"c","o","f","f","e","e">>,
    <<"d","i","n","i","n","g">>>>
grocery_keywords == <<
    <<"g","r","o","c","e","r","y">>,
    <<"s","u","p","e","r","m","a","r","k","e","t">>,
    <<"w","a","l","m","a","r","t">>,
    <<"t","a","r","g","e","t">>,
    <<"c","o","s","t","c","o">>,
    <<"m","a","r","k","e","t">>>>
gas_keywords == <<
    <<"g","a","s">>,
    <<"s","h","e","l","l">>,
    <<"e","x","x","o","n">>,
    <<"b","p">>,
    <<"c","h","e","v","r","o","n">>,
    <<"f","u","e","l">>>>

AnyKeyword(keywords, text) ==
    \E i \in 1..Len(keywords) : Contains(text, keywords[i])

\* the fallback with the grocery keywords tried before the food keywords
_fallback_categorization_grocery_first(description, amount) ==
    LET description_lower == Lower(description) IN
    IF amount > 0 THEN "income"
    ELSE IF AnyKeyword(grocery_keywords, description_lower) THEN "groceries"
    ELSE IF AnyKeyword(food_keywords, description_lower) THEN "food_dining"
    ELSE IF AnyKeyword(gas_keywords, description_lower) THEN "transportation"
    ELSE "other"

\* the fallback naming a category the enumeration does not hold
_fallback_categorization_fuel(description, amount) ==
    LET description_lower == Lower(description) IN
    IF amount > 0 THEN "income"
    ELSE IF AnyKeyword(gas_keywords, description_lower) THEN "fuel"
    ELSE "other"

_fallback_categorization(description, amount) ==
    LET description_lower == Lower(description) IN
    IF amount > 0 THEN "income"
    ELSE IF AnyKeyword(food_keywords, description_lower) THEN "food_dining"
    ELSE IF AnyKeyword(grocery_keywords, description_lower) THEN "groceries"
    ELSE IF AnyKeyword(gas_keywords, description_lower) THEN "transportation"
    ELSE "other"

\* the reply compared as it came, neither trimmed nor lower-cased
categorize_transaction_verbatim(is_enabled, description, amount, ai) ==
    IF ~is_enabled THEN "other"
    ELSE IF ai.raised THEN _fallback_categorization(description, amount)
    ELSE IF \E i \in 1..Len(STANDARD_CATEGORIES) :
                Spelling(STANDARD_CATEGORIES[i]) = ai.content
         THEN STANDARD_CATEGORIES[
                CHOOSE i \in 1..Len(STANDARD_CATEGORIES) :
                    Spelling(STANDARD_CATEGORIES[i]) = ai.content]
         ELSE "other"

\* ai: what client.chat.completions.create does, [raised |-> TRUE] or
\* [raised |-> FALSE, content |-> the characters of the reply]
categorize_transaction(is_enabled, description, amount, ai) ==
    IF ~is_enabled THEN "other"
    ELSE IF ai.raised THEN _fallback_categorization(description, amount)
    ELSE LET category == Lower(Strip(ai.content)) IN
         IF \E i \in 1..Len(STANDARD_CATEGORIES) :
                Spelling(STANDARD_CATEGORIES[i]) = category
         THEN STANDARD_CATEGORIES[
                CHOOSE i \in 1..Len(STANDARD_CATEGORIES) :
                    Spelling(STANDARD_CATEGORIES[i]) = category]
         ELSE "other"

\* one turn of the loop of batch_categorize_transactions: results[id] = category.
\* results is the dict so far; the item carries, besides its keys, the reply
\* the client gives to the call made for it (merchant is read by the prompt only)
batch_categorize_step_cached(is_enabled, results, transaction) ==
    LET category ==
            IF DOMAIN results # {}
            THEN results[CHOOSE k \in DOMAIN results : TRUE]
            ELSE categorize_transaction(is_enabled, transaction.description,
                                        transaction.amount, transaction.ai)
    IN  [k \in DOMAIN results \cup {transaction.id} |->
            IF k = transaction.id THEN category ELSE results[k]]

batch_categorize_step(is_enabled, results, transaction) ==
    LET category == categorize_transaction(is_enabled, transaction.description,
                                           transaction.amount, transaction.ai)
    IN  [k \in DOMAIN results \cup {transaction.id} |->
            IF k = transaction.id THEN category ELSE results[k]]

\* inputs of the classifier
ShellGasStation == <<"S","h","e","l","l"," ","G","a","s"," ","S","t","a","t","i","o","n">>
UnknownShopXYZ == <<"U","n","k","n","o","w","n"," ","S","h","o","p"," ","X","Y","Z">>
Paycheck == <<"P","a","y","c","h","e","c","k">>
PizzaMarket == <<"P","I","Z","Z","A"," ","M","a","r","k","e","t">>
TargetFuel == <<"T","a","r","g","e","t"," ","f","u","e","l">>
Descriptions == {ShellGasStation}
ClassifierDescriptions ==
    {ShellGasStation, UnknownShopXYZ, Paycheck, PizzaMarket, TargetFuel}
ClassifierAmounts == {-40, -10, 0, 3000}
AIReplies == {
    [raised |-> TRUE, content |-> <<>>],
    [raised |-> FALSE, content |-> <<" ","G","r","o","c","e","r","i","e","s","\n">>],
    [raised |-> FALSE, content |-> <<"T","R","A","V","E","L">>],
    [raised |-> FALSE, content |-> <<"f","o","o","d">>],
    [raised |-> FALSE, content |-> <<"s","n","a","c","k","s">>]}


\* ---------------------------------------------------------------- schemas
allowed_types == {"income", "expense", "transfer"}

\* TransactionCreate: the body's fields validated in declaration order
\* (transaction_type, amount, ..., account_id, transfer_account_id); a field
\* validator is not run on a field the body leaves at its default.
\* info.data holds transaction_type only when that field was valid.
\* validate_amount returning the amount as supplied
validate_amount_as_supplied(v, transaction_type) == v

TransactionCreate_validate_amount(v, transaction_type) ==
    IF transaction_type = Some("expense") /\ v > 0 THEN -Abs(v)
    ELSE IF transaction_type = Some("income") /\ v < 0 THEN Abs(v)
    ELSE v

\* TransactionCreate without validate_transfer_account
TransactionCreate_any_transfer_account(body) ==
    [errors |-> (IF body.transaction_type \in allowed_types THEN {}
                 ELSE {"Transaction type must be one of: income, expense, transfer"})
                \cup (IF body.amount = 0 THEN {"Amount cannot be zero"} ELSE {}),
     data |-> [transaction_type |-> body.transaction_type,
               amount |-> TransactionCreate_validate_amount(
                              body.amount, Some(body.transaction_type)),
               description |-> body.description,
               category |-> body.category,
               account_id |-> body.account_id,
               transfer_account_id |-> body.transfer_account_id,
               transaction_date |-> body.transaction_date]]

TransactionCreate(body) ==
    LET type_errors ==
            IF body.transaction_type \in allowed_types THEN {}
            ELSE {"Transaction type must be one of: income, expense, transfer"}
        transaction_type ==
            IF type_errors = {} THEN Some(body.transaction_type) ELSE None
        amount_errors ==
            IF body.amount = 0 THEN {"Amount cannot be zero"} ELSE {}
        v == body.transfer_account_id
        transfer_errors ==
            IF "transfer_account_id" \notin body.fields_set THEN {}
            ELSE IF transaction_type = Some("transfer")
                 THEN IF v = None
                      THEN {"Transfer transactions must specify transfer_account_id"}
                      ELSE IF v = Some(body.account_id)
                           THEN {"Cannot transfer to the same account"}
                           ELSE {}
                 ELSE IF transaction_type \in {Some("income"), Some("expense")} /\ v # None
                      THEN {"Income and expense transactions cannot have transfer_account_id"}
                      ELSE {}
    IN  [errors |-> type_errors \cup amount_errors \cup transfer_errors,
         data |-> [transaction_type |-> body.transaction_type,
                   amount |-> TransactionCreate_validate_amount(body.amount, transaction_type),
                   description |-> body.description,
                   category |-> body.category,
                   account_id |-> body.account_id,
                   transfer_account_id |->
                       IF "transfer_account_id" \in body.fields_set THEN v ELSE None,
                   transaction_date |-> body.transaction_date]]

\* TransactionUpdate without its amount validator
TransactionUpdate_unvalidated(body) == [errors |-> {}, data |-> body]

\* TransactionUpdate: amount may be absent, null, or a number other than zero
TransactionUpdate(body) ==
    [errors |-> IF "amount" \in body.fields_set /\ body.amount = Some(0)
                THEN {"Amount cannot be zero"} ELSE {},
     data |-> body]

\* ---------------------------------------------------------------- session
\* The writes a handler issues on its Session before db.commit():
\*   [k |-> "add", row]                db.add(row): the id is given at flush
\*   [k |-> "balance", account_id, balance]   account.balance = ...
\*   [k |-> "row", row]                attributes of a loaded row were set
\*   [k |-> "delete", id]              db.delete(row)
\*   [k |-> "account", row]            db.add(account)
\*   [k |-> "active", account_id, is_active]  account.is_active = ...
\*   [k |-> "account_row", account_id, row]   attributes of a loaded account were set
Database(accs, txs, nid) == [accounts |-> accs, transactions |-> txs, next_id |-> nid]

Apply(w, d) ==
    CASE w.k = "add" ->
            [d EXCEPT !.transactions = @ \cup {[w.row EXCEPT !.id = d.next_id]},
                      !.next_id = @ + 1]
      [] w.k = "balance" ->
            [d EXCEPT !.accounts[w.account_id].balance = w.balance]
      [] w.k = "row" ->
            [d EXCEPT !.transactions =
                {t \in @ : t.id # w.row.id} \cup {w.row}]
      [] w.k = "delete" ->
            [d EXCEPT !.transactions = {t \in @ : t.id # w.id}]
      [] w.k = "account" ->
            [d EXCEPT !.accounts = Append(@, w.row)]
      [] w.k = "active" ->
            [d EXCEPT !.accounts[w.account_id].is_active = w.is_active]
      [] w.k = "account_row" ->
            [d EXCEPT !.accounts[w.account_id] = w.row]

\* db.commit(): every write of the unit of work, in one database transaction
RECURSIVE Flush(_, _)
Flush(ws, d) == IF ws = <<>> THEN d ELSE Flush(Tail(ws), Apply(Head(ws), d))

Adds(ws) == Cardinality({i \in 1..Len(ws) : ws[i].k = "add"})

\* what a handler hands back: the response and the unit of work to commit
Response(status, detail, id, writes) ==
    [status |-> status, detail |-> detail, id |-> id, writes |-> writes]

\* --------------------------------------------------------------- accounts
\* db.query(Account).filter(Account.id == id, Account.user_id == user_id,
\*                          Account.is_active == True).first()
\* the lookup without the is_active filter, and without the user_id filter
get_account_by_id_inactive_too(d, account_id, user_id) ==
    {a \in DOMAIN d.accounts :
        Some(a) = account_id /\ d.accounts[a].user_id = user_id}

get_account_by_id_any_user(d, account_id, user_id) ==
    {a \in DOMAIN d.accounts :
        Some(a) = account_id /\ d.accounts[a].is_active}

get_account_by_id(d, account_id, user_id) ==
    {a \in DOMAIN d.accounts :
        /\ Some(a) = account_id
        /\ d.accounts[a].user_id = user_id
        /\ d.accounts[a].is_active}

\* ----------------------------------------------------------- transactions
Transaction(user_id, account_id, amount, category, transaction_type, transfer_account_id, transaction_date) ==
    [id |-> 0, user_id |-> user_id, account_id |-> account_id, amount |-> amount,
     category |-> category, transaction_type |-> transaction_type,
     transfer_account_id |-> transfer_account_id,
     transaction_date |-> transaction_date]

_create_single_transaction(d, transaction_data, user_id) ==
    LET db_transaction ==
            Transaction(user_id, transaction_data.account_id, transaction_data.amount,
                        transaction_data.category, transaction_data.transaction_type, None,
                        transaction_data.transaction_date)
        account == transaction_data.account_id
    IN  Response(201, {}, d.next_id,
            << [k |-> "add", row |-> db_transaction],
               [k |-> "balance", account_id |-> account,
                balance |-> d.accounts[account].balance + transaction_data.amount] >>)

\* the transfer legs built from the amount as supplied
transfer_amount_as_supplied(transaction_data) == transaction_data.amount

\* transfer_amount = abs(transaction_data.amount)
transfer_amount(transaction_data) == Abs(transaction_data.amount)

\* a transfer that debits the source and never credits the destination
_create_transfer_transactions_debit_only(d, transaction_data, user_id) ==
    _create_single_transaction(d,
        [transaction_data EXCEPT !.amount = 0 - transfer_amount(transaction_data)], user_id)

_create_transfer_transactions(d, transaction_data, user_id) ==
    LET transfer_account ==
            get_account_by_id(d, transaction_data.transfer_account_id, user_id)
    IN  IF transfer_account = {}
        THEN Response(400, {"Transfer account not found or access denied"}, 0, <<>>)
        ELSE
        LET outgoing_transaction ==
                Transaction(user_id, transaction_data.account_id, -transfer_amount(transaction_data),
                            Some("transfer"), "transfer",
                            transaction_data.transfer_account_id,
                            transaction_data.transaction_date)
            incoming_transaction ==
                Transaction(user_id, The(transaction_data.transfer_account_id),
                            transfer_amount(transaction_data), Some("transfer"), "transfer",
                            Some(transaction_data.account_id),
                            transaction_data.transaction_date)
            source_account == transaction_data.account_id
        IN  Response(201, {}, d.next_id,
                << [k |-> "balance", account_id |-> source_account,
                    balance |-> d.accounts[source_account].balance - transfer_amount(transaction_data)],
                   [k |-> "balance", account_id |-> The(transfer_account),
                    balance |-> d.accounts[The(transfer_account)].balance + transfer_amount(transaction_data)],
                   [k |-> "add", row |-> outgoing_transaction],
                   [k |-> "add", row |-> incoming_transaction] >>)

\* a create that classifies every income and expense, the caller's category or not
create_transaction_always_classified(d, transaction_data, user_id, is_enabled, ai) ==
    IF get_account_by_id(d, Some(transaction_data.account_id), user_id) = {}
    THEN Response(400, {"Account not found or access denied"}, 0, <<>>)
    ELSE IF transaction_data.transaction_type = "transfer"
    THEN _create_transfer_transactions(d, transaction_data, user_id)
    ELSE _create_single_transaction(d,
            [transaction_data EXCEPT !.category =
                Some(categorize_transaction(is_enabled, transaction_data.description,
                                            transaction_data.amount, ai))],
            user_id)

create_transaction(d, transaction_data, user_id, is_enabled, ai) ==
    IF get_account_by_id(d, Some(transaction_data.account_id), user_id) = {}
    THEN Response(400, {"Account not found or access denied"}, 0, <<>>)
    ELSE
    LET categorized ==
            IF transaction_data.category \in {None, Some("")}
               /\ transaction_data.transaction_type # "transfer"
            THEN [transaction_data EXCEPT !.category =
                    Some(categorize_transaction(is_enabled, transaction_data.description,
                                                transaction_data.amount, ai))]
            ELSE transaction_data
    IN  IF categorized.transaction_type = "transfer"
        THEN _create_transfer_transactions(d, categorized, user_id)
        ELSE _create_single_transaction(d, categorized, user_id)

\* the lookup without the user_id filter
get_transaction_by_id_any_user(d, transaction_id, user_id) ==
    {t \in d.transactions : t.id = transaction_id}

get_transaction_by_id(d, transaction_id, user_id) ==
    {t \in d.transactions : t.id = transaction_id /\ t.user_id = user_id}

\* the balance moved by the new amount, and by the delta the wrong way round
balance_diff_new_amount(new_amount, old_amount) == new_amount

balance_diff_reversed(new_amount, old_amount) == old_amount - new_amount

\* the delta counted twice
balance_diff_doubled(new_amount, old_amount) == 2 * (new_amount - old_amount)

\* balance_diff = transaction.amount - old_amount
balance_diff(new_amount, old_amount) == new_amount - old_amount

\* transaction_data.model_dump(exclude_unset=True) holds the fields of fields_set;
\* an amount of null makes `transaction.amount - old_amount` raise TypeError
update_transaction(d, transaction_id, user_id, transaction_data) ==
    LET found == get_transaction_by_id(d, transaction_id, user_id) IN
    IF found = {} THEN Response(404, {"Transaction not found"}, transaction_id, <<>>)
    ELSE
    LET transaction == The(found)
        old_amount == transaction.amount
        has_amount == "amount" \in transaction_data.fields_set
    IN  IF has_amount /\ transaction_data.amount = None
        THEN Response(500, {"Internal Server Error"}, transaction_id, <<>>)
        ELSE
        LET updated ==
                [transaction EXCEPT
                    !.amount = IF has_amount THEN The(transaction_data.amount) ELSE @]
        IN  Response(200, {}, transaction_id,
                << [k |-> "row", row |-> updated] >> \o
                (IF has_amount
                 THEN << [k |-> "balance", account_id |-> transaction.account_id,
                          balance |-> d.accounts[transaction.account_id].balance
                                        + balance_diff(updated.amount, old_amount)] >>
                 ELSE <<>>))

\* a delete that removes the row and leaves the balance as it is
delete_transaction_keeps_balance(d, transaction_id, user_id) ==
    IF get_transaction_by_id(d, transaction_id, user_id) = {}
    THEN Response(404, {"Transaction not found"}, transaction_id, <<>>)
    ELSE Response(204, {}, transaction_id, << [k |-> "delete", id |-> transaction_id] >>)

\* a delete that looks the row up by id alone, whoever owns it
delete_transaction_any_user(d, transaction_id, user_id) ==
    LET found == {t \in d.transactions : t.id = transaction_id} IN
    IF found = {} THEN Response(404, {"Transaction not found"}, transaction_id, <<>>)
    ELSE delete_transaction_keeps_balance(d, transaction_id, The(found).user_id)

\* a delete that leaves the balance of an inactive account as it is
delete_transaction_active_only(d, transaction_id, user_id) ==
    LET found == get_transaction_by_id(d, transaction_id, user_id) IN
    IF found = {} THEN Response(404, {"Transaction not found"}, transaction_id, <<>>)
    ELSE
    LET transaction == The(found) IN
        Response(204, {}, transaction_id,
            (IF d.accounts[transaction.account_id].is_active
             THEN << [k |-> "balance", account_id |-> transaction.account_id,
                      balance |-> d.accounts[transaction.account_id].balance
                                    - transaction.amount] >>
             ELSE <<>>) \o
            << [k |-> "delete", id |-> transaction_id] >>)

\* a delete that removes the row with the neighbouring id as well (the two
\* legs of a transfer are added one after the other)
delete_transaction_both_legs(d, transaction_id, user_id) ==
    LET r == delete_transaction_keeps_balance(d, transaction_id, user_id) IN
    IF r.status # 204 THEN r
    ELSE [r EXCEPT !.writes = @ \o
            << [k |-> "delete",
                id |-> IF transaction_id > 1 THEN transaction_id - 1
                       ELSE transaction_id + 1] >>]

delete_transaction(d, transaction_id, user_id) ==
    LET found == get_transaction_by_id(d, transaction_id, user_id) IN
    IF found = {} THEN Response(404, {"Transaction not found"}, transaction_id, <<>>)
    ELSE
    LET transaction == The(found) IN
        Response(204, {}, transaction_id,
            << [k |-> "balance", account_id |-> transaction.account_id,
                balance |-> d.accounts[transaction.account_id].balance
                              - transaction.amount],
               [k |-> "delete", id |-> transaction_id] >>)

\* sum(t.amount for t in rows)
RECURSIVE sum(_)
sum(rows) ==
    IF rows = {} THEN 0
    ELSE LET t == CHOOSE x \in rows : TRUE IN t.amount + sum(rows \ {t})

\* a date bound to the DateTime column transaction_date: the start of that day
AsDateTime(day) == Midnight(day)

\* query.all(): `if account_id:` is false for None and for 0; a date is
\* always true
Selected(d, user_id, account_id, start_date, end_date) ==
    {t \in d.transactions :
        /\ t.user_id = user_id
        /\ account_id \notin {None, Some(0)} => t.account_id = The(account_id)
        /\ start_date # None => t.transaction_date >= AsDateTime(The(start_date))
        /\ end_date # None => t.transaction_date <= AsDateTime(The(end_date))}

\* the summary with total_expenses left signed
get_transaction_summary_signed(d, user_id, account_id, start_date, end_date) ==
    LET rows == Selected(d, user_id, account_id, start_date, end_date)
        total_income == sum({t \in rows : t.amount > 0})
        total_expenses == sum({t \in rows : t.amount < 0})
    IN  [total_income |-> total_income,
         total_expenses |-> total_expenses,
         net_amount |-> total_income - total_expenses,
         transaction_count |-> Cardinality(rows)]

get_transaction_summary(d, user_id, account_id, start_date, end_date) ==
    LET rows == Selected(d, user_id, account_id, start_date, end_date)
        total_income == sum({t \in rows : t.amount > 0})
        total_expenses == Abs(sum({t \in rows : t.amount < 0}))
    IN  [total_income |-> total_income,
         total_expenses |-> total_expenses,
         net_amount |-> total_income - total_expenses,
         transaction_count |-> Cardinality(rows)]


\* -------------------------------------------------------- account schemas
\* AccountCreate.validate_account_type
allowed_account_types == {"checking", "savings", "credit_card", "investment", "cash"}

\* Decimal('-999999.99') and Decimal('999999999.99').  Integers of the model
\* checker end at 2^31 - 1, which is less than 99,999,999.99 in cents: a
\* balance from 99,999,999.00 on is written as 1,000,000,000 plus its cents
\* above 99,999,999.00, and one from 999,999,999.00 on as 2,000,000,000 plus
\* its cents above 999,999,999.00.  Order is kept, and so is adding a few
\* cents; no balance between these ranges occurs.
validate_balance_least == -99999999
validate_balance_most == 2000000099

\* AccountCreate: balance may be left out (the default 0.00 is not validated),
\* null, or a number
AccountCreate(body) ==
    LET supplied == "balance" \in body.fields_set /\ body.balance # None IN
    [errors |->
        (IF body.account_type \notin allowed_account_types
         THEN {"Account type must be one of: checking, savings, credit_card, investment, cash"}
         ELSE {}) \cup
        (IF supplied /\ The(body.balance) < validate_balance_least
         THEN {"Balance cannot be less than -999,999.99"} ELSE {}) \cup
        (IF supplied /\ The(body.balance) > validate_balance_most
         THEN {"Balance cannot be more than 999,999,999.99"} ELSE {}),
     data |-> [name |-> body.name,
               account_type |-> body.account_type,
               balance |-> IF "balance" \in body.fields_set THEN body.balance ELSE Some(0)]]

\* AccountUpdate: every field may be left out or null; account_type, when
\* not null, is validated
AccountUpdate(body) ==
    [errors |->
        IF /\ "account_type" \in body.fields_set
           /\ body.account_type # None
           /\ The(body.account_type) \notin allowed_account_types
        THEN {"Account type must be one of: checking, savings, credit_card, investment, cash"}
        ELSE {},
     data |-> body]

\* -------------------------------------------------------- account service
\* Column balance is Numeric(precision=10, scale=2): a database that enforces
\* the precision (PostgreSQL) refuses a value of more than 8 integer digits
\* with "numeric field overflow"; SQLite stores it.  99,999,999.99 is written
\* as are the limits of validate_balance.
NumericMost == 1000000099

Overflows(engine, balance) == engine = "postgresql" /\ Abs(balance) > NumericMost

\* account_service.create_account: a balance of None is left out of the INSERT
\* and the column default 0.00 is stored
create_account(d, account_data, user_id, engine) ==
    LET balance == IF account_data.balance = None THEN 0 ELSE The(account_data.balance) IN
    IF Overflows(engine, balance)
    THEN Response(500, {"numeric field overflow"}, 0, <<>>)
    ELSE Response(201, {}, Len(d.accounts) + 1,
            << [k |-> "account",
                row |-> [user_id |-> user_id,
                         name |-> account_data.name,
                         account_type |-> account_data.account_type,
                         balance |-> balance,
                         is_active |-> TRUE]] >>)

\* account_service.get_user_accounts
get_user_accounts(d, user_id) ==
    {a \in DOMAIN d.accounts : d.accounts[a].user_id = user_id /\ d.accounts[a].is_active}

\* the update that sets name and account_type whether the patch has them or not
update_account_all_fields(d, account_id, user_id, account_data, engine) ==
    IF get_account_by_id(d, Some(account_id), user_id) = {}
    THEN Response(404, {"Account not found"}, account_id, <<>>)
    ELSE Response(200, {}, account_id,
            << [k |-> "account_row", account_id |-> account_id,
                row |-> [d.accounts[account_id] EXCEPT
                            !.name = "Savings", !.account_type = "savings"]] >>)

\* account_service.update_account: setattr for every field of
\* account_data.dict(exclude_unset=True), then commit.  Columns name and
\* account_type are nullable=False: a null for either fails the UPDATE with
\* IntegrityError.
update_account(d, account_id, user_id, account_data, engine) ==
    IF get_account_by_id(d, Some(account_id), user_id) = {}
    THEN Response(404, {"Account not found"}, account_id, <<>>)
    ELSE
    LET account == d.accounts[account_id]
        set == account_data.fields_set
    IN  IF \/ "name" \in set /\ account_data.name = None
           \/ "account_type" \in set /\ account_data.account_type = None
        THEN Response(500, {"NOT NULL constraint failed"}, account_id, <<>>)
        ELSE
        LET updated ==
                [account EXCEPT
                    !.name = IF "name" \in set THEN The(account_data.name) ELSE @,
                    !.account_type =
                        IF "account_type" \in set THEN The(account_data.account_type) ELSE @,
                    !.balance = IF "balance" \in set THEN account_data.balance ELSE @,
                    !.is_active = IF "is_active" \in set THEN account_data.is_active ELSE @]
        IN  IF Overflows(engine, updated.balance)
            THEN Response(500, {"numeric field overflow"}, account_id, <<>>)
            ELSE Response(200, {}, account_id,
                    << [k |-> "account_row", account_id |-> account_id, row |-> updated] >>)

\* a delete that finds the account and leaves it active
delete_account_keeps_active(d, account_id, user_id) ==
    IF get_account_by_id(d, Some(account_id), user_id) = {}
    THEN Response(404, {"Account not found"}, account_id, <<>>)
    ELSE Response(204, {}, account_id,
            << [k |-> "active", account_id |-> account_id, is_active |-> TRUE] >>)

delete_account(d, account_id, user_id) ==
    IF get_account_by_id(d, Some(account_id), user_id) = {}
    THEN Response(404, {"Account not found"}, account_id, <<>>)
    ELSE Response(204, {}, account_id,
            << [k |-> "active", account_id |-> account_id, is_active |-> FALSE] >>)

\* ----------------------------------------------------------------- inputs
CreateBodies ==
    {b \in [transaction_type : allowed_types,
            amount : Amounts,
            description : Descriptions,
            category : {None},
            account_id : AccountIds,
            transfer_account_id : {None} \cup {Some(a) : a \in AccountIds},
            transaction_date : {Noon(1)},
            fields_set : SUBSET {"transfer_account_id"}] :
        "transfer_account_id" \notin b.fields_set => b.transfer_account_id = None}

\* a patch of the amount, of a field the ledger does not read (description), or both
UpdateBodies ==
    {b \in [amount : {None} \cup {Some(v) : v \in Amounts},
            fields_set : SUBSET {"amount", "description"}] :
        "amount" \notin b.fields_set => b.amount = None}

\* create requests with and without a category, classified from two
\* descriptions; a category is free text ("rent" is none of the 13)
CategoryBodies ==
    {b \in [transaction_type : allowed_types,
            amount : {1},
            description : {ShellGasStation, PizzaMarket},
            category : {None, Some(""), Some("rent")},
            account_id : AccountIds,
            transfer_account_id : {None} \cup {Some(a) : a \in AccountIds},
            transaction_date : {Noon(1)},
            fields_set : SUBSET {"transfer_account_id"}] :
        "transfer_account_id" \in b.fields_set <=> b.transfer_account_id # None}

\* the AI call fails, or answers with a category
CategoryReplies == {
    [raised |-> TRUE, content |-> <<>>],
    [raised |-> FALSE, content |-> <<" ","G","r","o","c","e","r","i","e","s","\n">>]}

\* creates on either day with amounts of two sizes, and the query parameters
\* of the summary: an account id (0 is an id no account has), a first and a
\* last day
SummaryBodies ==
    {b \in [transaction_type : allowed_types,
            amount : {1, 2},
            description : Descriptions,
            category : {None},
            account_id : AccountIds,
            transfer_account_id : {None} \cup {Some(a) : a \in AccountIds},
            transaction_date : {Noon(day) : day \in Days},
            fields_set : SUBSET {"transfer_account_id"}] :
        "transfer_account_id" \in b.fields_set <=> b.transfer_account_id # None}

\* The ledger reads no account name: each account is opened under the next
\* name of AccountNames, a checking account with a balance of OpeningBalances.
AccountNames == <<"Checking", "Savings">>

OpeningBodies ==
    [name : {AccountNames[i] : i \in {Len(accounts) + 1} \cap DOMAIN AccountNames},
     account_type : {"checking"},
     balance : {Some(b) : b \in OpeningBalances},
     fields_set : {{"balance"}}]

\* account requests: a name of two, a kind the schema knows or not ("loan"),
\* and a balance left out, or at, or one cent beyond, a limit of validate_balance
BalanceInputs ==
    {validate_balance_least - 1, validate_balance_least,
     validate_balance_most, validate_balance_most + 1}

AccountBodies ==
    {b \in [name : {AccountNames[i] : i \in DOMAIN AccountNames},
            account_type : {"checking", "loan"},
            balance : {None} \cup {Some(v) : v \in BalanceInputs},
            fields_set : SUBSET {"balance"}] :
        "balance" \in b.fields_set <=> b.balance # None}

\* the form always carries a balance
FormBodies == {b \in AccountBodies : "balance" \in b.fields_set}

\* checking accounts of either name, opened with a balance of OpeningBalances
NamedBodies ==
    [name : {AccountNames[i] : i \in DOMAIN AccountNames},
     account_type : {"checking"},
     balance : {Some(b) : b \in OpeningBalances},
     fields_set : {{"balance"}}]

\* a patch carries the fields of fields_set; the value of a field left out is
\* not read.  One patch names a kind the schema does not know.
AccountPatches ==
    [name : {Some("Savings")},
     account_type : {Some("savings")},
     balance : {5},
     is_active : BOOLEAN,
     fields_set : SUBSET {"name", "account_type", "balance", "is_active"}]
    \cup
    [name : {Some("Savings")},
     account_type : {Some("loan")},
     balance : {5},
     is_active : {TRUE},
     fields_set : {{"account_type"}}]

\* every patch of PUT /accounts/{account_id} over these values: a name or a
\* kind given, null or left out, a balance of five cents or one cent more
\* than Numeric(10, 2) holds, is_active either way.  (A null balance or
\* is_active is stored as NULL, which the arithmetic here does not carry.)
PatchBodies ==
    {b \in [name : {None, Some("Savings")},
            account_type : {None, Some("savings"), Some("loan")},
            balance : {5, NumericMost + 1},
            is_active : BOOLEAN,
            fields_set : SUBSET {"name", "account_type", "balance", "is_active"}] :
        /\ "name" \notin b.fields_set => b.name = None
        /\ "account_type" \notin b.fields_set => b.account_type = None
        /\ "balance" \notin b.fields_set => b.balance = 5
        /\ "is_active" \notin b.fields_set => b.is_active}

\* an income of one cent on either account
IncomeBodies ==
    [transaction_type : {"income"},
     amount : {1},
     description : Descriptions,
     category : {None},
     account_id : AccountIds,
     transfer_account_id : {None},
     transaction_date : {Noon(1)},
     fields_set : {{}}]

\* creates of two units of either kind or as a transfer, and patches that
\* set another amount, of negative sign, or leave the amount alone
LedgerBodies ==
    {b \in [transaction_type : allowed_types,
            amount : {2},
            description : Descriptions,
            category : {None},
            account_id : AccountIds,
            transfer_account_id : {None} \cup {Some(a) : a \in AccountIds},
            transaction_date : {Noon(1)},
            fields_set : SUBSET {"transfer_account_id"}] :
        "transfer_account_id" \in b.fields_set <=> b.transfer_account_id # None}

LedgerPatches ==
    {[amount |-> Some(-1), fields_set |-> {"amount"}],
     [amount |-> None, fields_set |-> {"description"}]}

AccountFilters == {None} \cup {Some(a) : a \in {0} \cup AccountIds}
DateFilters == {None} \cup {Some(day) : day \in Days}

\* the classifier is off and its client is never called
NoReply == [raised |-> TRUE, content |-> <<>>]

\* ------------------------------------------------------------------- Init
\* An empty database; OPENAI_API_KEY is not configured, so the classifier
\* starts disabled.
Init ==
    /\ accounts = <<>>
    /\ transactions = {}
    /\ next_id = 1
    /\ enabled = FALSE
    /\ opening = <<>>
    /\ pc = "idle"
    /\ todo = <<>>
    /\ staged = <<>>
    /\ unit = <<>>
    /\ classified = None
    /\ concurrent = [w \in Workers |-> None]
    /\ dialect = "sqlite"
    /\ batch = None

Db == Database(accounts, transactions, next_id)

\* the handler's unit of work committed as one database transaction
Commit(r) ==
    LET d == Flush(r.writes, Db) IN
    /\ accounts' = d.accounts
    /\ transactions' = d.transactions
    /\ next_id' = d.next_id

\* --------------------------------------------------------------- handlers
\* POST /accounts
\* POST /accounts: the body is validated (422); a name the user has on any
\* account, active or not, is refused (400); then create_account runs
create_user_account(d, user_id, body, engine) ==
    LET v == AccountCreate(body)
        existing_account ==
            {a \in DOMAIN d.accounts :
                d.accounts[a].user_id = user_id /\ d.accounts[a].name = v.data.name}
    IN  IF v.errors # {} THEN Response(422, v.errors, 0, <<>>)
        ELSE IF existing_account # {}
        THEN Response(400, {"You already have an account with this name"}, 0, <<>>)
        ELSE create_account(d, v.data, user_id, engine)

\* POST /accounts/add, the form of the web pages: name, account_type and
\* balance are form fields (balance 0.0 by default, so always supplied);
\* every exception is caught and the form is rendered again with the error
add_account_post(d, user_id, body, engine) ==
    LET v == AccountCreate([body EXCEPT !.fields_set = {"balance"}])
        created == create_account(d, v.data, user_id, engine)
    IN  IF v.errors # {} THEN Response(200, v.errors, 0, <<>>)
        ELSE Response(200, created.detail, created.id, created.writes)

\* PUT /accounts/{account_id}
update_user_account(d, user_id, account_id, body, engine) ==
    LET v == AccountUpdate(body) IN
    IF v.errors # {} THEN Response(422, v.errors, account_id, <<>>)
    ELSE update_account(d, account_id, user_id, v.data, engine)

\* GET /accounts/{account_id}
get_account(d, user_id, account_id) ==
    IF get_account_by_id(d, Some(account_id), user_id) = {}
    THEN Response(404, {"Account not found"}, account_id, <<>>)
    ELSE Response(200, {}, account_id, <<>>)

\* GET /accounts
get_my_accounts(d, user_id) == get_user_accounts(d, user_id)

\* DELETE /accounts/{account_id}
delete_user_account(d, user_id, account_id) == delete_account(d, account_id, user_id)

\* POST /transactions: the body is validated (422), then create_transaction
\* runs; its ValueError becomes 400
create_user_transaction(d, user_id, body, is_enabled, ai) ==
    LET v == TransactionCreate(body) IN
    IF v.errors # {}
    THEN Response(422, v.errors, 0, <<>>)
    ELSE create_transaction(d, v.data, user_id, is_enabled, ai)

\* PUT /transactions/{transaction_id}
update_user_transaction(d, user_id, transaction_id, body) ==
    LET v == TransactionUpdate(body) IN
    IF v.errors # {}
    THEN Response(422, v.errors, transaction_id, <<>>)
    ELSE update_transaction(d, transaction_id, user_id, v.data)

\* DELETE /transactions/{transaction_id}
delete_user_transaction(d, user_id, transaction_id) ==
    delete_transaction(d, transaction_id, user_id)

\* GET /transactions/reports/summary
get_my_transaction_summary(d, user_id, account_id, start_date, end_date) ==
    get_transaction_summary(d, user_id, account_id, start_date, end_date)

\* ---------------------------------------------------------------- actions
\* the balance every account was created with, once its row is persisted
Opened ==
    [a \in DOMAIN accounts' |->
        IF a \in DOMAIN opening THEN opening[a] ELSE accounts'[a].balance]

CreateAccount(u, body) ==
    /\ pc = "idle"
    /\ Len(accounts) + 1 \in AccountIds
    /\ Commit(create_user_account(Db, u, body, dialect))
    /\ opening' = Opened
    /\ UNCHANGED <<enabled, dialect, batch, classified, concurrent, session>>

AddAccount(u, body) ==
    /\ pc = "idle"
    /\ Len(accounts) + 1 \in AccountIds
    /\ Commit(add_account_post(Db, u, body, dialect))
    /\ opening' = Opened
    /\ UNCHANGED <<enabled, dialect, batch, classified, concurrent, session>>

UpdateAccount(u, account_id, body) ==
    /\ pc = "idle"
    /\ Commit(update_user_account(Db, u, account_id, body, dialect))
    /\ UNCHANGED <<enabled, dialect, batch, classified, concurrent, opening, session>>

DeleteAccount(u, account_id) ==
    /\ pc = "idle"
    /\ Commit(delete_user_account(Db, u, account_id))
    /\ UNCHANGED <<enabled, dialect, batch, classified, concurrent, opening, session>>

CreateTransaction(u, body, ai) ==
    LET r == create_user_transaction(Db, u, body, enabled, ai) IN
    /\ pc = "idle"
    /\ next_id + Adds(r.writes) <= MaxTransactions + 1
    /\ Commit(r)
    /\ UNCHANGED <<enabled, dialect, batch, classified, concurrent, opening, session>>

UpdateTransaction(u, transaction_id, body) ==
    /\ pc = "idle"
    /\ Commit(update_user_transaction(Db, u, transaction_id, body))
    /\ UNCHANGED <<enabled, dialect, batch, classified, concurrent, opening, session>>

DeleteTransaction(u, transaction_id) ==
    /\ pc = "idle"
    /\ Commit(delete_user_transaction(Db, u, transaction_id))
    /\ UNCHANGED <<enabled, dialect, batch, classified, concurrent, opening, session>>

Next ==
    \/ \E u \in Users, body \in OpeningBodies : CreateAccount(u, body)
    \/ \E u \in Users, a \in AccountIds : DeleteAccount(u, a)
    \/ \E u \in Users, body \in CreateBodies : CreateTransaction(u, body, NoReply)
    \/ \E u \in Users, t \in TransactionIds, body \in UpdateBodies :
            UpdateTransaction(u, t, body)
    \/ \E u \in Users, t \in TransactionIds : DeleteTransaction(u, t)

Spec == Init /\ [][Next]_vars

\* ------------------------------------------------ the session, step by step
\* The same handlers with their unit of work spelled out.  SessionLocal is
\* made with autocommit=False and autoflush=False: db.add(), db.delete() and
\* an attribute set on a loaded row are held by the Session; the database is
\* written by the one db.commit() that ends the handler.
Begin(r) ==
    /\ pc = "idle"
    /\ r.writes # <<>>
    /\ next_id + Adds(r.writes) <= MaxTransactions + 1
    /\ pc' = "running"
    /\ todo' = r.writes
    /\ unit' = r.writes
    /\ staged' = <<>>
    /\ UNCHANGED <<db, enabled, dialect, batch, classified, concurrent, opening>>

BeginCreate(u, body, ai) == Begin(create_user_transaction(Db, u, body, enabled, ai))

BeginUpdate(u, transaction_id, body) ==
    Begin(update_user_transaction(Db, u, transaction_id, body))

BeginDelete(u, transaction_id) == Begin(delete_user_transaction(Db, u, transaction_id))

\* a Session that writes each change through as it is made (autocommit)
StageAutocommit ==
    /\ pc = "running"
    /\ todo # <<>>
    /\ Commit([writes |-> << Head(todo) >>])
    /\ staged' = staged
    /\ todo' = Tail(todo)
    /\ UNCHANGED <<pc, unit, enabled, dialect, batch, classified, concurrent, opening>>

\* the handler's next statement: the change is pending in the Session
Stage ==
    /\ pc = "running"
    /\ todo # <<>>
    /\ staged' = Append(staged, Head(todo))
    /\ todo' = Tail(todo)
    /\ UNCHANGED <<db, pc, unit, enabled, dialect, batch, classified, concurrent, opening>>

\* db.commit(): flush of the pending changes and COMMIT
CommitSession ==
    /\ pc = "running"
    /\ todo = <<>>
    /\ Commit([writes |-> staged])
    /\ pc' = "idle"
    /\ staged' = <<>>
    /\ unit' = <<>>
    /\ UNCHANGED <<todo, enabled, dialect, batch, classified, concurrent, opening>>

\* the handler ends before db.commit() (an exception, a lost connection):
\* get_db closes the Session and its pending changes are dropped
Close ==
    /\ pc = "running"
    /\ pc' = "idle"
    /\ todo' = <<>>
    /\ staged' = <<>>
    /\ unit' = <<>>
    /\ UNCHANGED <<db, enabled, dialect, batch, classified, concurrent, opening>>

NextSession ==
    \/ \E u \in Users, body \in OpeningBodies : CreateAccount(u, body)
    \/ \E u \in Users, a \in AccountIds : DeleteAccount(u, a)
    \/ \E u \in Users, body \in CreateBodies : BeginCreate(u, body, NoReply)
    \/ \E u \in Users, t \in TransactionIds, body \in UpdateBodies :
            BeginUpdate(u, t, body)
    \/ \E u \in Users, t \in TransactionIds : BeginDelete(u, t)
    \/ Stage
    \/ CommitSession
    \/ Close

SpecSession == Init /\ [][NextSession]_vars

\* ------------------------------------------------- requests side by side
\* Two requests, each in a Session of its own on a connection of its own.
\* The engine is created with the database's default isolation level and no
\* query locks a row: a handler reads committed rows, computes its writes (a
\* balance as the value read plus the amount), and its db.commit() sends
\* them: UPDATE accounts SET balance = <that value>.
ConcurrentBodies ==
    {b \in CreateBodies :
        b.transaction_type \in {"income", "expense"} /\ b.amount = 1 /\ b.fields_set = {}}

\* rows the units of work in hand will add
Pending == LET held == {w \in Workers : concurrent[w] # None} IN
           IF held = {} THEN 0
           ELSE IF Cardinality(held) = 1 THEN Adds(The(concurrent[The(held)]))
           ELSE Adds(The(concurrent[1])) + Adds(The(concurrent[2]))

\* the handler has run up to its db.commit()
Load(w, r) ==
    /\ pc = "idle"
    /\ concurrent[w] = None
    /\ r.writes # <<>>
    /\ next_id + Pending + Adds(r.writes) <= MaxTransactions + 1
    /\ concurrent' = [concurrent EXCEPT ![w] = Some(r.writes)]
    /\ UNCHANGED <<db, enabled, dialect, batch, classified, opening, session>>

LoadCreate(w, u, body) == Load(w, create_user_transaction(Db, u, body, enabled, NoReply))

LoadDelete(w, u, transaction_id) == Load(w, delete_user_transaction(Db, u, transaction_id))

\* db.commit(): the flush of a DELETE that matches no row raises
\* StaleDataError, so a unit of work commits only if its rows are still there
CommitConcurrent(w) ==
    /\ concurrent[w] # None
    /\ LET writes == The(concurrent[w]) IN
        /\ \A i \in 1..Len(writes) :
                writes[i].k = "delete" => \E t \in transactions : t.id = writes[i].id
        /\ Commit([writes |-> writes])
    /\ concurrent' = [concurrent EXCEPT ![w] = None]
    /\ UNCHANGED <<enabled, dialect, batch, classified, opening, session>>

\* db.commit() raised, or the request ended before it: nothing is written
FailConcurrent(w) ==
    /\ concurrent[w] # None
    /\ concurrent' = [concurrent EXCEPT ![w] = None]
    /\ UNCHANGED <<db, enabled, dialect, batch, classified, opening, session>>

NextConcurrent ==
    \/ \E u \in Users, body \in OpeningBodies : CreateAccount(u, body)
    \/ \E w \in Workers, u \in Users, body \in ConcurrentBodies : LoadCreate(w, u, body)
    \/ \E w \in Workers, u \in Users, t \in TransactionIds : LoadDelete(w, u, t)
    \/ \E w \in Workers : CommitConcurrent(w)
    \/ \E w \in Workers : FailConcurrent(w)

SpecConcurrent == Init /\ [][NextConcurrent]_vars

\* ------------------------------------------------------------ the summary
\* the report is computed from the committed rows and writes nothing
GetSummary(u, account_id, start_date, end_date) ==
    /\ pc = "idle"
    /\ get_my_transaction_summary(Db, u, account_id, start_date, end_date)
            .transaction_count <= Cardinality(transactions)
    /\ UNCHANGED vars

NextSummary ==
    \/ \E u \in Users, body \in OpeningBodies : CreateAccount(u, body)
    \/ \E u \in Users, body \in SummaryBodies : CreateTransaction(u, body, NoReply)
    \/ \E u \in Users, a \in AccountFilters, s \in DateFilters, e \in DateFilters :
            GetSummary(u, a, s, e)

SpecSummary == Init /\ [][NextSummary]_vars

\* ----------------------------------------------------- opening accounts
\* Accounts are opened through the API and through the form of the web
\* pages, and closed, on a database that enforces the precision of Numeric
\* columns or on one that does not.
InitOpen ==
    /\ accounts = <<>>
    /\ transactions = {}
    /\ next_id = 1
    /\ enabled = FALSE
    /\ opening = <<>>
    /\ pc = "idle"
    /\ todo = <<>>
    /\ staged = <<>>
    /\ unit = <<>>
    /\ classified = None
    /\ concurrent = [w \in Workers |-> None]
    /\ dialect \in {"sqlite", "postgresql"}
    /\ batch = None

NextOpen ==
    \/ \E u \in Users, body \in AccountBodies : CreateAccount(u, body)
    \/ \E u \in Users, body \in FormBodies : AddAccount(u, body)
    \/ \E u \in Users, a \in AccountIds : DeleteAccount(u, a)

SpecOpen == InitOpen /\ [][NextOpen]_vars

\* ------------------------------------------------- the life of an account
\* Accounts are opened, patched and closed through the API, and incomes are
\* booked on them.
NextAccount ==
    \/ \E u \in Users, body \in NamedBodies : CreateAccount(u, body)
    \/ \E u \in Users, a \in AccountIds, body \in AccountPatches : UpdateAccount(u, a, body)
    \/ \E u \in Users, a \in AccountIds : DeleteAccount(u, a)
    \/ \E u \in Users, body \in IncomeBodies : CreateTransaction(u, body, NoReply)

SpecAccount == Init /\ [][NextAccount]_vars

\* ------------------------------------------------------ accounts, patched
\* User 1 has opened two accounts; they are patched, and incomes are booked
\* on them, on either kind of database.
InitPatch ==
    /\ accounts = << [user_id |-> 1, name |-> "Checking", account_type |-> "checking",
                       balance |-> 1, is_active |-> TRUE],
                     [user_id |-> 1, name |-> "Savings", account_type |-> "checking",
                       balance |-> 1, is_active |-> TRUE] >>
    /\ transactions = {}
    /\ next_id = 1
    /\ enabled = FALSE
    /\ opening = <<1, 1>>
    /\ pc = "idle"
    /\ todo = <<>>
    /\ staged = <<>>
    /\ unit = <<>>
    /\ classified = None
    /\ concurrent = [w \in Workers |-> None]
    /\ dialect \in {"sqlite", "postgresql"}
    /\ batch = None

NextPatch ==
    \/ \E u \in Users, a \in AccountIds, body \in PatchBodies : UpdateAccount(u, a, body)
    \/ \E u \in Users, body \in IncomeBodies : CreateTransaction(u, body, NoReply)

SpecPatch == InitPatch /\ [][NextPatch]_vars

\* ------------------------------------------------- the ledger, patched
\* The ledger of Spec with amounts that a patch changes in size and in sign.
NextLedger ==
    \/ \E u \in Users, body \in OpeningBodies : CreateAccount(u, body)
    \/ \E u \in Users, a \in AccountIds : DeleteAccount(u, a)
    \/ \E u \in Users, body \in LedgerBodies : CreateTransaction(u, body, NoReply)
    \/ \E u \in Users, t \in TransactionIds, body \in LedgerPatches :
            UpdateTransaction(u, t, body)
    \/ \E u \in Users, t \in TransactionIds : DeleteTransaction(u, t)

SpecLedger == Init /\ [][NextLedger]_vars

\* ------------------------------------------- creates with the classifier
\* The ledger with the classifier as it was constructed, enabled or not, and
\* the AI call answering or raising.  User 1 has opened two accounts; user 2
\* has none.
InitCategory ==
    /\ accounts = << [user_id |-> 1, name |-> "Checking", account_type |-> "checking",
                       balance |-> 1, is_active |-> TRUE],
                     [user_id |-> 1, name |-> "Savings", account_type |-> "checking",
                       balance |-> 1, is_active |-> TRUE] >>
    /\ transactions = {}
    /\ next_id = 1
    /\ opening = <<1, 1>>
    /\ pc = "idle"
    /\ todo = <<>>
    /\ staged = <<>>
    /\ unit = <<>>
    /\ classified = None
    /\ concurrent = [w \in Workers |-> None]
    /\ dialect = "sqlite"
    /\ batch = None
    /\ enabled \in BOOLEAN

NextCategory ==
    \E u \in Users, body \in CategoryBodies, ai \in CategoryReplies :
        CreateTransaction(u, body, ai)

SpecCategory == InitCategory /\ [][NextCategory]_vars

\* ------------------------------------------------ the classifier on its own
\* One call of categorization_service.categorize_transaction, its arguments
\* drawn at the start; the service is enabled or not as it was constructed.
InitClassifier ==
    /\ accounts = <<>>
    /\ transactions = {}
    /\ next_id = 1
    /\ opening = <<>>
    /\ pc = "idle"
    /\ todo = <<>>
    /\ staged = <<>>
    /\ unit = <<>>
    /\ enabled \in BOOLEAN
    /\ classified \in {Some(c) : c \in [description : ClassifierDescriptions,
                                         amount : ClassifierAmounts,
                                         ai : AIReplies,
                                         category : {None}]}
    /\ concurrent = [w \in Workers |-> None]
    /\ dialect = "sqlite"
    /\ batch = None

\* the call in hand
Call == The(classified)

Categorize ==
    /\ classified # None
    /\ Call.category = None
    /\ classified' =
            Some([Call EXCEPT !.category =
                    Some(categorize_transaction(enabled, Call.description,
                                                Call.amount, Call.ai))])
    /\ UNCHANGED <<db, enabled, dialect, batch, opening, session, concurrent>>

NextClassifier == Categorize

SpecClassifier == InitClassifier /\ [][NextClassifier]_vars


\* ------------------------------------------------- a batch of classifier calls
\* One call of batch_categorize_transactions on a list of up to MaxBatch
\* items, with ids that may repeat; results starts as the empty dict.
BatchItems ==
    [id : {1, 2, 3},
     description : {ShellGasStation, Paycheck},
     amount : {-10},
     ai : {[raised |-> TRUE, content |-> <<>>],
           [raised |-> FALSE, content |-> <<"f","o","o","d">>]}]

BatchLists == UNION {[1..n -> BatchItems] : n \in 0..MaxBatch}

InitBatch ==
    /\ accounts = <<>>
    /\ transactions = {}
    /\ next_id = 1
    /\ opening = <<>>
    /\ pc = "idle"
    /\ todo = <<>>
    /\ staged = <<>>
    /\ unit = <<>>
    /\ enabled \in BOOLEAN
    /\ classified = None
    /\ concurrent = [w \in Workers |-> None]
    /\ dialect = "sqlite"
    /\ batch \in {Some([transactions |-> l, turns |-> 0, results |-> <<>>]) : l \in BatchLists}

\* the batch call in hand
Batch == The(batch)

\* for transaction in transactions: ...
BatchTurn ==
    /\ batch # None
    /\ Batch.turns < Len(Batch.transactions)
    /\ batch' =
            Some([Batch EXCEPT
                    !.turns = @ + 1,
                    !.results = batch_categorize_step(enabled, @,
                                    Batch.transactions[Batch.turns + 1])])
    /\ UNCHANGED <<db, enabled, dialect, opening, session, classified, concurrent>>

NextBatch == BatchTurn

SpecBatch == InitBatch /\ [][NextBatch]_vars


\* ============================================================ properties
RECURSIVE SumAmounts(_)
SumAmounts(rows) ==
    IF rows = {} THEN 0
    ELSE LET t == CHOOSE t \in rows : TRUE IN t.amount + SumAmounts(rows \ {t})

\* the signed amounts of the persisted rows of one account
LedgerSum(a) == SumAmounts({t \in transactions : t.account_id = a})

\* a transaction id that was given out and whose row is gone
Deleted(i) == i < next_id /\ \A t \in transactions : t.id # i

\* the database after the handler's response r is committed
After(r) == Flush(r.writes, Db)

\* account a is missing, is another user's, or is soft-deleted
Unusable(a, u) ==
    \/ a \notin DOMAIN accounts
    \/ accounts[a].user_id # u
    \/ ~accounts[a].is_active

\* ---- C1 -----------------------------------------------------------------
\* C1 as the spec states it: once a transaction was created, every account's
\* balance equals the sum of the signed amounts of its persisted rows.
C1_BalanceIsLedgerSum ==
    next_id > 1 =>
        \A a \in DOMAIN accounts : accounts[a].balance = LedgerSum(a)

\* C1, amended: after any sequence of create, update and delete of
\* transactions, every account's balance equals the balance the account was
\* created with plus the sum of the signed amounts of the persisted rows
\* whose account_id is that account.
C1_BalanceIsOpeningPlusLedgerSum ==
    \A a \in DOMAIN accounts :
        accounts[a].balance = opening[a] + LedgerSum(a)

\* a row was created, one was deleted, and an account's rows do not sum to zero
C1_Witness ==
    /\ \E i \in TransactionIds : Deleted(i)
    /\ \E a \in DOMAIN accounts : opening[a] # 0 /\ LedgerSum(a) # 0

\* ---- C2 -----------------------------------------------------------------
\* C2: a successful transfer create with amount a from account A to account B
\* takes |a| from A.balance, adds |a| to B.balance, and adds exactly two rows,
\* the outgoing leg (A, -|a|, transfer_account_id B) and the incoming leg
\* (B, +|a|, transfer_account_id A), both of category "transfer"; the
\* outgoing leg is the record returned.
C2_TransferCreate ==
    \A u \in Users, body \in CreateBodies :
        LET r == create_user_transaction(Db, u, body, enabled, NoReply)
            d == After(r)
            A == body.account_id
            B == The(body.transfer_account_id)
            m == Abs(body.amount)
            outgoing == [id |-> next_id, user_id |-> u, account_id |-> A,
                         amount |-> -m, category |-> Some("transfer"),
                         transaction_type |-> "transfer",
                         transfer_account_id |-> Some(B),
                         transaction_date |-> body.transaction_date]
            incoming == [id |-> next_id + 1, user_id |-> u, account_id |-> B,
                         amount |-> m, category |-> Some("transfer"),
                         transaction_type |-> "transfer",
                         transfer_account_id |-> Some(A),
                         transaction_date |-> body.transaction_date]
        IN  body.transaction_type = "transfer" /\ r.status = 201 =>
                /\ A # B
                /\ d.accounts[A].balance = accounts[A].balance - m
                /\ d.accounts[B].balance = accounts[B].balance + m
                /\ d.transactions = transactions \cup {outgoing, incoming}
                /\ Cardinality(d.transactions) = Cardinality(transactions) + 2
                /\ r.id = outgoing.id

\* both legs of a transfer are persisted and both balances have moved
C2_Witness ==
    \E o \in transactions, i \in transactions :
        /\ o.transaction_type = "transfer" /\ i.transaction_type = "transfer"
        /\ o.amount = -1 /\ i.amount = 1 /\ i.id = o.id + 1
        /\ o.transfer_account_id = Some(i.account_id)
        /\ i.transfer_account_id = Some(o.account_id)
        /\ accounts[o.account_id].balance = opening[o.account_id] - 1
        /\ accounts[i.account_id].balance = opening[i.account_id] + 1

\* ---- C3 -----------------------------------------------------------------
\* C3: for every supplied amount a other than zero, a successful create of an
\* income persists amount +|a| and adds |a| to the account's balance; of an
\* expense, persists -|a| and takes |a| from the balance.
C3_SignNormalization ==
    \A u \in Users, body \in CreateBodies :
        LET r == create_user_transaction(Db, u, body, enabled, NoReply)
            d == After(r)
            a == body.account_id
            signed == IF body.transaction_type = "income"
                      THEN Abs(body.amount) ELSE -Abs(body.amount)
        IN  body.transaction_type \in {"income", "expense"} /\ r.status = 201 =>
                /\ \E t \in d.transactions :
                    /\ t.id = r.id /\ t.amount = signed /\ t.account_id = a
                    /\ t.transaction_type = body.transaction_type
                    /\ d.transactions = transactions \cup {t}
                    /\ t \notin transactions
                /\ d.accounts[a].balance = accounts[a].balance + signed

\* an income is persisted with its balance effect, and requests whose sign is
\* against their kind are accepted here
C3_Witness ==
    /\ next_id = 2
    /\ \E t \in transactions :
        /\ t.transaction_type = "income" /\ t.amount = 1
        /\ accounts[t.account_id].balance = opening[t.account_id] + 1
    /\ \E u \in Users, body \in CreateBodies :
        /\ body.transaction_type = "income" /\ body.amount < 0
        /\ create_user_transaction(Db, u, body, enabled, NoReply).status = 201
    /\ \E u \in Users, body \in CreateBodies :
        /\ body.transaction_type = "expense" /\ body.amount > 0
        /\ create_user_transaction(Db, u, body, enabled, NoReply).status = 201

\* ---- C4 -----------------------------------------------------------------
\* C4: a create request of any kind with amount 0, and an update request
\* whose patch sets amount to 0, fail validation (422, "Amount cannot be
\* zero"); no row is added or changed and no balance changes.
C4_ZeroAmountRejected ==
    /\ \A u \in Users, body \in CreateBodies :
        LET r == create_user_transaction(Db, u, body, enabled, NoReply) IN
        body.amount = 0 =>
            /\ r.status = 422
            /\ "Amount cannot be zero" \in r.detail
            /\ After(r) = Db
    /\ \A u \in Users, t \in TransactionIds, body \in UpdateBodies :
        LET r == update_user_transaction(Db, u, t, body) IN
        "amount" \in body.fields_set /\ body.amount = Some(0) =>
            /\ r.status = 422
            /\ "Amount cannot be zero" \in r.detail
            /\ After(r) = Db

\* zero is the only fault: with amount 1 in place of 0 a create of each kind
\* and an update of a persisted row are accepted here
C4_Witness ==
    /\ \A k \in allowed_types : \E u \in Users, body \in CreateBodies :
        /\ body.transaction_type = k /\ body.amount = 0
        /\ create_user_transaction(Db, u, [body EXCEPT !.amount = 1],
                                   enabled, NoReply).status = 201
        /\ create_user_transaction(Db, u, body, enabled, NoReply).status = 422
    /\ \E u \in Users, t \in TransactionIds :
        /\ update_user_transaction(Db, u, t,
                [amount |-> Some(1), fields_set |-> {"amount"}]).status = 200
        /\ update_user_transaction(Db, u, t,
                [amount |-> Some(0), fields_set |-> {"amount"}]).status = 422

\* ---- C5 -----------------------------------------------------------------
\* C5: a successful delete of a transaction with amount a on account X sets
\* X.balance to its value before minus a and removes exactly that row.
C5_DeleteReversal ==
    \A u \in Users, i \in TransactionIds :
        LET r == delete_user_transaction(Db, u, i)
            d == After(r)
        IN  r.status = 204 =>
                \E t \in transactions :
                    /\ t.id = i
                    /\ d.transactions = transactions \ {t}
                    /\ d.accounts[t.account_id].balance =
                            accounts[t.account_id].balance - t.amount
                    /\ \A a \in DOMAIN accounts :
                            a # t.account_id => d.accounts[a] = accounts[a]

\* the only row created is gone and its account is back at its opening balance
C5_Witness ==
    /\ next_id = 2
    /\ transactions = {}
    /\ \E a \in DOMAIN accounts : opening[a] # 0
    /\ \A a \in DOMAIN accounts : accounts[a].balance = opening[a]

\* ---- C6 -----------------------------------------------------------------
\* C6: a successful update whose patch sets amount to new on a row with
\* stored amount old changes the balance of the row's account by exactly
\* new - old, once; a patch without amount leaves every balance unchanged.
C6_UpdateDelta ==
    \A u \in Users, i \in TransactionIds, body \in UpdateBodies :
        LET r == update_user_transaction(Db, u, i, body)
            d == After(r)
        IN  r.status = 200 =>
                \E t \in transactions :
                    /\ t.id = i
                    /\ IF "amount" \in body.fields_set
                       THEN /\ d.accounts[t.account_id].balance =
                                    accounts[t.account_id].balance
                                        + (The(body.amount) - t.amount)
                            /\ \A a \in DOMAIN accounts :
                                    a # t.account_id => d.accounts[a] = accounts[a]
                            /\ d.transactions =
                                    (transactions \ {t})
                                        \cup {[t EXCEPT !.amount = The(body.amount)]}
                       ELSE /\ d.accounts = accounts
                            /\ d.transactions = transactions

\* an expense whose amount an update has made positive, its account's balance
\* moved by new - old = 2 from what the create left
C6_Witness ==
    \E t \in transactions :
        /\ t.transaction_type = "expense" /\ t.amount = 1
        /\ Cardinality(transactions) = 1 /\ next_id = 2
        /\ accounts[t.account_id].balance = opening[t.account_id] - 1 + 2

\* ---- C7 -----------------------------------------------------------------
\* a step after which an observer of the database reads the same rows and
\* the same balance of every account
LedgerUnchanged ==
    /\ transactions' = transactions
    /\ \A a \in DOMAIN accounts : accounts'[a].balance = accounts[a].balance

RowsMatchBalances ==
    \A a \in DOMAIN accounts : accounts[a].balance = opening[a] + LedgerSum(a)

\* C7: every step of a create (a transfer's two legs and two balance changes
\* included), an update or a delete either leaves the rows and balances as
\* they are, or is the commit that applies every write of the operation; no
\* state shows a row write without its balance change or the reverse.
C7_AllOrNothing ==
    [][ /\ \/ LedgerUnchanged
           \/ /\ pc = "running" /\ todo = <<>>
              /\ <<accounts', transactions', next_id'>> =
                    <<Flush(unit, Db).accounts, Flush(unit, Db).transactions,
                      Flush(unit, Db).next_id>>
        /\ RowsMatchBalances' ]_vars

\* a transfer in flight: both balance changes and the outgoing leg are
\* pending, the incoming leg is still to come, and the database shows none
C7_Witness ==
    /\ pc = "running"
    /\ Len(unit) = 4 /\ Len(staged) = 3 /\ Len(todo) = 1
    /\ Flush(staged, Db).transactions # transactions
    /\ \E a \in DOMAIN accounts :
            Flush(staged, Db).accounts[a].balance # accounts[a].balance
    /\ RowsMatchBalances

\* ---- C8 -----------------------------------------------------------------
\* C8: create_transaction fails with "Account not found or access denied"
\* when the primary account does not exist, is another user's, or is
\* soft-deleted; no row is added and no balance changes.
C8_PrimaryAccountNotFound ==
    \A u \in Users, body \in CreateBodies :
        LET r == create_user_transaction(Db, u, body, enabled, NoReply) IN
        TransactionCreate(body).errors = {} /\ Unusable(body.account_id, u) =>
            /\ r.status = 400
            /\ r.detail = {"Account not found or access denied"}
            /\ After(r) = Db

\* user 1 has a soft-deleted account that holds a row, the other account is
\* user 2's and active: both are refused to user 1
C8_Witness ==
    /\ Len(accounts) = 2
    /\ accounts[1].user_id = 1 /\ ~accounts[1].is_active
    /\ accounts[2].user_id = 2 /\ accounts[2].is_active
    /\ \E t \in transactions : t.account_id = 1
    /\ \A a \in AccountIds : \E body \in CreateBodies :
        /\ body.account_id = a /\ body.transaction_type = "income"
        /\ create_user_transaction(Db, 1, body, enabled, NoReply).status = 400

\* ---- C9 -----------------------------------------------------------------
\* C9: a transfer create from a usable account whose destination is not
\* supplied, does not exist, is another user's or is soft-deleted fails with
\* "Transfer account not found or access denied"; neither leg is persisted
\* and no balance changes.
C9_TransferAccountNotFound ==
    \A u \in Users, body \in CreateBodies :
        LET r == create_user_transaction(Db, u, body, enabled, NoReply) IN
        /\ body.transaction_type = "transfer"
        /\ TransactionCreate(body).errors = {}
        /\ ~Unusable(body.account_id, u)
        /\ \/ "transfer_account_id" \notin body.fields_set
           \/ Unusable(The(body.transfer_account_id), u)
        => /\ r.status = 400
           /\ r.detail = {"Transfer account not found or access denied"}
           /\ After(r) = Db

\* user 1 holds an active account with a row; the other account is
\* soft-deleted: a transfer to it, and one that names no destination, are
\* refused
C9_Witness ==
    /\ Len(accounts) = 2
    /\ accounts[1].user_id = 1 /\ accounts[1].is_active
    /\ accounts[2].user_id = 1 /\ ~accounts[2].is_active
    /\ \E t \in transactions : t.account_id = 1
    /\ \A f \in SUBSET {"transfer_account_id"} : \E body \in CreateBodies :
        /\ body.transaction_type = "transfer" /\ body.account_id = 1
        /\ body.fields_set = f /\ body.amount # 0
        /\ f # {} => body.transfer_account_id = Some(2)
        /\ create_user_transaction(Db, 1, body, enabled, NoReply).detail =
                {"Transfer account not found or access denied"}

\* ---- C10 ----------------------------------------------------------------
\* C10: update_transaction and delete_transaction answer not found when the
\* transaction id does not exist, is another user's or was already deleted,
\* and then no row and no balance changes; so a second delete of the same
\* transaction reverses nothing.
C10_TransactionNotFound ==
    \A u \in Users, i \in TransactionIds :
        LET del == delete_user_transaction(Db, u, i)
            again == delete_user_transaction(After(del), u, i)
        IN  /\ (\A t \in transactions : t.id = i => t.user_id # u) =>
                /\ del.status = 404 /\ After(del) = Db
                /\ \A body \in UpdateBodies :
                    LET upd == update_user_transaction(Db, u, i, body) IN
                    TransactionUpdate(body).errors = {} =>
                        upd.status = 404 /\ After(upd) = Db
            /\ del.status = 204 =>
                /\ again.status = 404
                /\ Flush(again.writes, After(del)) = After(del)

\* row 1 was deleted and its balance effect reversed once; row 2 is user 2's:
\* user 1 is refused on both
C10_Witness ==
    /\ Deleted(1)
    /\ \E t \in transactions : t.id = 2 /\ t.user_id = 2
    /\ \A a \in DOMAIN accounts : accounts[a].balance = opening[a] + LedgerSum(a)
    /\ \A i \in {1, 2} :
        /\ delete_user_transaction(Db, 1, i).status = 404
        /\ update_user_transaction(Db, 1, i,
                [amount |-> Some(1), fields_set |-> {"amount"}]).status = 404

\* ---- C11 ----------------------------------------------------------------
\* C11: in every reachable state every persisted income has amount > 0 and
\* every persisted expense has amount < 0.
C11_SignConvention ==
    \A t \in transactions :
        /\ t.transaction_type = "income" => t.amount > 0
        /\ t.transaction_type = "expense" => t.amount < 0

\* ---- C12 ----------------------------------------------------------------
\* C12: in every reachable state every persisted income or expense has
\* transfer_account_id null, and every persisted transfer has
\* transfer_account_id set to an account other than its own account_id.
C12_TransferReference ==
    \A t \in transactions :
        IF t.transaction_type = "transfer"
        THEN t.transfer_account_id # None /\ t.transfer_account_id # Some(t.account_id)
        ELSE t.transfer_account_id = None

\* both legs of a transfer are persisted, each naming the other's account,
\* and a transfer back onto its own account is refused in validation
C12_Witness ==
    /\ \E t1, t2 \in transactions :
        /\ t1.transaction_type = "transfer" /\ t2.transaction_type = "transfer"
        /\ t1.id # t2.id
        /\ t1.transfer_account_id = Some(t2.account_id)
        /\ t2.transfer_account_id = Some(t1.account_id)
    /\ \E u \in Users, body \in CreateBodies :
        /\ body.transaction_type = "transfer"
        /\ body.transfer_account_id = Some(body.account_id)
        /\ ~Unusable(body.account_id, u)
        /\ "Cannot transfer to the same account"
                \in create_user_transaction(Db, u, body, enabled, NoReply).detail

\* ---- C13 ----------------------------------------------------------------
\* the call has returned
Classified == classified # None /\ Call.category # None

\* C13: when the service is not enabled categorize_transaction returns what
\* the keyword fallback returns: "transportation" for ("Shell Gas Station",
\* -40), "other" for ("Unknown Shop XYZ", -10), "income" for ("Paycheck", 3000).
C13_DisabledUsesFallback ==
    Classified /\ ~enabled =>
        /\ Call.category =
                Some(_fallback_categorization(Call.description, Call.amount))
        /\ Call.description = ShellGasStation /\ Call.amount = -40
                => Call.category = Some("transportation")
        /\ Call.description = UnknownShopXYZ /\ Call.amount = -10
                => Call.category = Some("other")
        /\ Call.description = Paycheck /\ Call.amount = 3000
                => Call.category = Some("income")

\* ---- C14 ----------------------------------------------------------------
\* the keyword groups in the order the fallback tries them
KeywordGroups == <<
    [keywords |-> food_keywords, category |-> "food_dining"],
    [keywords |-> grocery_keywords, category |-> "groceries"],
    [keywords |-> gas_keywords, category |-> "transportation"]>>

\* the groups with a keyword that occurs in the lower-cased description
Matching(description) ==
    {g \in 1..Len(KeywordGroups) :
        \E k \in 1..Len(KeywordGroups[g].keywords) :
            Contains(Lower(description), KeywordGroups[g].keywords[k])}

\* C14: the fallback returns "income" for amount > 0 whatever the
\* description; otherwise the category of the first of the groups food,
\* grocery, fuel with a keyword in the lower-cased description, and "other"
\* when no group has one.
C14_FallbackFirstMatch ==
    Classified /\ enabled /\ Call.ai.raised =>
        LET hits == Matching(Call.description) IN
        Call.category =
            Some(IF Call.amount > 0 THEN "income"
                 ELSE IF hits = {} THEN "other"
                 ELSE KeywordGroups[CHOOSE g \in hits : \A h \in hits : g <= h].category)

\* "PIZZA Market" has a food and a grocery keyword, is not income, and was
\* classified by the fallback as food_dining
C14_Witness ==
    /\ Classified /\ enabled /\ Call.ai.raised
    /\ Call.description = PizzaMarket
    /\ Call.amount < 0
    /\ Matching(PizzaMarket) = {1, 2}
    /\ Call.category = Some("food_dining")

\* ---- C15 ----------------------------------------------------------------
Categories == {STANDARD_CATEGORIES[i] : i \in 1..Len(STANDARD_CATEGORIES)}

\* C15: a reply of the AI path is returned only if, trimmed and lower-cased,
\* it is exactly one of the 13 categories, and then as that category; every
\* other reply yields "other".
C15_ReplyCoercion ==
    /\ Cardinality(Categories) = 13
    /\ Classified /\ enabled /\ ~Call.ai.raised =>
        LET reply == Lower(Strip(Call.ai.content))
            named == {c \in Categories : Spelling(c) = reply}
        IN  IF named = {} THEN Call.category = Some("other")
            ELSE Call.category = named

\* the reply " Groceries\n" was returned as groceries
C15_Witness ==
    /\ Classified /\ enabled /\ ~Call.ai.raised
    /\ Call.ai.content # Spelling("groceries")
    /\ Call.category = Some("groceries")

\* ---- C16 ----------------------------------------------------------------
\* C16: an error raised on the AI path makes categorize_transaction return
\* the keyword fallback's result; on every path (reply accepted, reply not a
\* category, error, service disabled) the value returned is one of the
\* categories.
C16_AlwaysACategory ==
    Classified =>
        /\ Call.category \subseteq Categories
        /\ enabled /\ Call.ai.raised =>
                Call.category =
                    Some(_fallback_categorization(Call.description,
                                                  Call.amount))

\* the AI call raised on "Shell Gas Station" and the caller got transportation
C16_Witness ==
    /\ Classified /\ enabled /\ Call.ai.raised
    /\ Call.description = ShellGasStation
    /\ Call.amount = -40
    /\ Call.category = Some("transportation")

\* ---- C17 ----------------------------------------------------------------
\* the rows a create adds, and what the request's category must become
Added(r) == After(r).transactions \ transactions

\* For every accepted create: a transfer adds two legs of category
\* "transfer"; an income or expense adds one row and moves its balance, the
\* row's category being the classifier's result when the request has none
\* (RequestsNone) and the request's own otherwise.
CategoryResolved(u, body, ai, RequestsNone(_)) ==
    LET r == create_user_transaction(Db, u, body, enabled, ai)
        data == TransactionCreate(body).data
    IN  r.status = 201 =>
            IF body.transaction_type = "transfer"
            THEN /\ Cardinality(Added(r)) = 2
                 /\ \A t \in Added(r) : t.category = Some("transfer")
            ELSE \E t \in Added(r) :
                    /\ Added(r) = {t}
                    /\ After(r).accounts[t.account_id].balance =
                            accounts[t.account_id].balance + t.amount
                    /\ t.category =
                            IF RequestsNone(body.category)
                            THEN Some(categorize_transaction(
                                        enabled, data.description, data.amount, ai))
                            ELSE body.category

Absent(category) == category = None

AbsentOrEmpty(category) == category \in {None, Some("")}

\* C17 as stated: the request has no category when the field is absent
\* (null), and any category the caller supplies is persisted unchanged.
C17_CategoryOnCreate ==
    \A u \in Users, body \in CategoryBodies, ai \in CategoryReplies :
        CategoryResolved(u, body, ai, Absent)

\* C17: a create of kind income or expense whose category is absent or the
\* empty string persists the classifier's result, also when the AI call
\* fails; a non-empty category of the caller is persisted unchanged;
\* transfer legs are persisted with category "transfer".
C17_CategoryOnCreateNonEmpty ==
    \A u \in Users, body \in CategoryBodies, ai \in CategoryReplies :
        CategoryResolved(u, body, ai, AbsentOrEmpty)

\* the classifier is enabled; a row classified by the fallback (the AI call
\* raised) and a row with the caller's own category are persisted
C17_Witness ==
    /\ enabled
    /\ \E t \in transactions :
        t.transaction_type = "expense" /\ t.category \in {Some("transportation"), Some("food_dining")}
    /\ \E t \in transactions : t.category = Some("rent")

\* ---- C18 ----------------------------------------------------------------
\* C18: for the set S the summary selects, total_income is the sum of the
\* amounts of S above zero, total_expenses the absolute value of the sum of
\* those below zero, net_amount their difference, which is the sum of all
\* amounts of S, and transaction_count the size of S; a transfer leg counts
\* like any other row.
C18_SummaryTotals ==
    \A u \in Users, a \in AccountFilters, s \in DateFilters, e \in DateFilters :
        LET r == get_my_transaction_summary(Db, u, a, s, e)
            S == Selected(Db, u, a, s, e)
        IN  /\ r.total_income = SumAmounts({t \in S : t.amount > 0})
            /\ r.total_expenses = Abs(SumAmounts({t \in S : t.amount < 0}))
            /\ r.total_expenses >= 0
            /\ r.net_amount = r.total_income - r.total_expenses
            /\ r.net_amount = SumAmounts(S)
            /\ r.transaction_count = Cardinality(S)

\* a user holds an income of 2 and the outgoing leg of a transfer of 1 or an
\* expense of 1: income 2, expenses 1, net 1, two rows
C18_Witness ==
    \E u \in Users :
        /\ \E t \in transactions : t.user_id = u /\ t.amount = 2
        /\ \E t \in transactions : t.user_id = u /\ t.amount = -1
        /\ get_my_transaction_summary(Db, u, None, None, None) =
                [total_income |-> 2, total_expenses |-> 1, net_amount |-> 1,
                 transaction_count |-> 2]

\* ---- C19 ----------------------------------------------------------------
\* the day a datetime falls on
DayOf(datetime) == datetime \div 2

\* C19: the summarized set is exactly the requesting user's transactions,
\* of the given account when an account filter is present, and dated on a
\* day from start_date to end_date, both days included, when those are given.
C19_SummaryFilter ==
    \A u \in Users, a \in AccountFilters, s \in DateFilters, e \in DateFilters :
        Selected(Db, u, a, s, e) =
            {t \in transactions :
                /\ t.user_id = u
                /\ a # None => t.account_id = The(a)
                /\ s # None => DayOf(t.transaction_date) >= The(s)
                /\ e # None => DayOf(t.transaction_date) <= The(e)}

\* ---- C20 ----------------------------------------------------------------
\* C20: operations that adjust the same account's balance side by side are
\* serialized: every commit moves each balance by what it adds to and takes
\* from the account's persisted amounts, so after both have committed the
\* balance holds both adjustments.
C20_NoLostUpdate ==
    [][\A a \in DOMAIN accounts :
            accounts'[a].balance - accounts[a].balance = LedgerSum(a)' - LedgerSum(a)]_vars

\* ------------------------------------------------------------------ C21
\* the account is one of user_id's and is active
Owned(a, user_id) ==
    a \in DOMAIN accounts /\ accounts[a].user_id = user_id /\ accounts[a].is_active

\* delete_account on an owned active account clears is_active and changes
\* nothing else: the row, its balance and every transaction stay
DeleteIsSoft ==
    \A u \in Users, a \in AccountIds :
        LET r == delete_account(Db, a, u) IN
        Owned(a, u) =>
            /\ r.status = 204
            /\ After(r).accounts = [accounts EXCEPT ![a].is_active = FALSE]
            /\ After(r).transactions = transactions

\* an inactive account is listed for nobody and found by no account operation
InactiveIsNotFound ==
    \A a \in DOMAIN accounts : ~accounts[a].is_active =>
        \A u \in Users :
            /\ a \notin get_user_accounts(Db, u)
            /\ get_account_by_id(Db, Some(a), u) = {}
            /\ delete_account(Db, a, u).status = 404
            /\ \A body \in AccountPatches :
                    /\ update_account(Db, a, u, body, dialect).status = 404
                    /\ update_account(Db, a, u, body, dialect).writes = <<>>

\* C21: delete_account on an owned active account only clears is_active
\* (the row, its balance and all transactions are kept); an inactive account
\* is absent from get_user_accounts and not found by get_account_by_id,
\* update_account and delete_account; and no step makes an inactive account
\* active again or removes its row.
C21_SoftDelete ==
    /\ [](DeleteIsSoft /\ InactiveIsNotFound)
    /\ [][\A a \in DOMAIN accounts : ~accounts[a].is_active =>
                a \in DOMAIN accounts' /\ ~accounts'[a].is_active]_vars

\* an account with an income booked on it has been closed
C21_Witness ==
    \E a \in DOMAIN accounts :
        /\ ~accounts[a].is_active
        /\ accounts[a].balance # 0
        /\ \E t \in transactions : t.account_id = a

\* ------------------------------------------------------------------ C22
\* the names of user_id's accounts, active or not
NamesOf(d, user_id) ==
    {d.accounts[a].name : a \in {i \in DOMAIN d.accounts : d.accounts[i].user_id = user_id}}

\* C22: no two accounts of one owner have the same name, and a creation
\* request (POST /accounts or the form POST /accounts/add) with a name the
\* owner already uses persists nothing.
C22_UniqueNames ==
    /\ \A a, b \in DOMAIN accounts :
            a # b /\ accounts[a].user_id = accounts[b].user_id =>
                accounts[a].name # accounts[b].name
    /\ \A u \in Users, body \in AccountBodies :
            body.name \in NamesOf(Db, u) =>
                /\ create_user_account(Db, u, body, dialect).writes = <<>>
                /\ add_account_post(Db, u, body, dialect).writes = <<>>

\* ------------------------------------------------------------------ C23
\* the request is answered by a new active account of user_id with this balance
Persists(r, user_id, balance) ==
    /\ Len(After(r).accounts) = Len(accounts) + 1
    /\ After(r).accounts[Len(accounts) + 1].user_id = user_id
    /\ After(r).accounts[Len(accounts) + 1].balance = balance
    /\ After(r).accounts[Len(accounts) + 1].is_active

\* C23: POST /accounts with a valid kind and a name not in use: an opening
\* balance below -999,999.99 or above 999,999,999.99 is rejected and no
\* account is persisted; a balance exactly at either limit is accepted and
\* persisted; a balance left out is persisted as 0.00.
C23_OpeningBalanceBound ==
    \A u \in Users, body \in AccountBodies :
        LET r == create_user_account(Db, u, body, dialect) IN
        body.account_type \in allowed_account_types /\ body.name \notin NamesOf(Db, u) =>
            /\ body.balance # None /\ The(body.balance) < validate_balance_least =>
                    r.status = 422 /\ r.writes = <<>>
            /\ body.balance # None /\ The(body.balance) > validate_balance_most =>
                    r.status = 422 /\ r.writes = <<>>
            /\ body.balance \in {Some(validate_balance_least), Some(validate_balance_most)} =>
                    r.status = 201 /\ Persists(r, u, The(body.balance))
            /\ "balance" \notin body.fields_set =>
                    r.status = 201 /\ Persists(r, u, 0)

\* ------------------------------------------------------------------ C24
\* between the databases before and after, nothing differs but the row
\* of transaction t and the balance of t's own account
OnlyOwnLeg(before, after, t) ==
    /\ {x \in after.transactions : x.id # t.id} = {x \in before.transactions : x.id # t.id}
    /\ DOMAIN after.accounts = DOMAIN before.accounts
    /\ \A a \in DOMAIN before.accounts :
            after.accounts[a] =
                IF a = t.account_id
                THEN [before.accounts[a] EXCEPT !.balance = after.accounts[a].balance]
                ELSE before.accounts[a]

\* C24: update_transaction and delete_transaction on one leg of a transfer
\* change that leg's row and the balance of that leg's account_id only: the
\* sibling leg, the counterparty account and everything else stay as they are.
C24_SingleLegFrame ==
    \A t \in transactions : t.transaction_type = "transfer" =>
        /\ \A body \in LedgerPatches :
                OnlyOwnLeg(Db, After(update_user_transaction(Db, t.user_id, t.id, body)), t)
        /\ OnlyOwnLeg(Db, After(delete_user_transaction(Db, t.user_id, t.id)), t)
        /\ t \notin After(delete_user_transaction(Db, t.user_id, t.id)).transactions

\* one leg of a transfer has been patched: the legs do not mirror each other
C24_Witness ==
    \E t, sibling \in transactions :
        /\ t.transaction_type = "transfer" /\ sibling.transaction_type = "transfer"
        /\ t.id # sibling.id
        /\ t.transfer_account_id = Some(sibling.account_id)
        /\ t.amount # 0 - sibling.amount

\* ------------------------------------------------------------------ C25
\* the loop of the batch call has ended
Returned == batch # None /\ Batch.turns = Len(Batch.transactions)

DistinctIds(l) == \A i, j \in DOMAIN l : i # j => l[i].id # l[j].id

\* C25: for a list of items with pairwise distinct ids,
\* batch_categorize_transactions returns a mapping whose keys are exactly
\* those ids, each id mapped to what categorize_transaction returns for that
\* item alone, whatever the other items and their order.
C25_BatchPerItem ==
    Returned /\ DistinctIds(Batch.transactions) =>
        /\ DOMAIN Batch.results = {Batch.transactions[i].id : i \in DOMAIN Batch.transactions}
        /\ \A i \in DOMAIN Batch.transactions :
                Batch.results[Batch.transactions[i].id] =
                    categorize_transaction(enabled, Batch.transactions[i].description,
                        Batch.transactions[i].amount, Batch.transactions[i].ai)

\* a batch of two items with distinct ids has returned two different categories
C25_Witness ==
    /\ Returned /\ DistinctIds(Batch.transactions)
    /\ Len(Batch.transactions) = 2
    /\ Batch.results[Batch.transactions[1].id] # Batch.results[Batch.transactions[2].id]

\* ------------------------------------------------------------------ C26
\* row `after` is row `before` with exactly the fields of the patch set
SetsPatchedFields(before, after, body) ==
    /\ Some(after.name) = IF "name" \in body.fields_set THEN body.name ELSE Some(before.name)
    /\ Some(after.account_type) =
            IF "account_type" \in body.fields_set THEN body.account_type
            ELSE Some(before.account_type)
    /\ after.balance = IF "balance" \in body.fields_set THEN body.balance ELSE before.balance
    /\ after.is_active = IF "is_active" \in body.fields_set THEN body.is_active ELSE before.is_active
    /\ after.user_id = before.user_id

\* the update is answered 200, account a has the patched fields set and no
\* other, and every other account and every transaction is as before
UpdatesOnlyPatched(r, a, body) ==
    /\ r.status = 200
    /\ DOMAIN After(r).accounts = DOMAIN accounts
    /\ SetsPatchedFields(accounts[a], After(r).accounts[a], body)
    /\ \A other \in DOMAIN accounts \ {a} : After(r).accounts[other] = accounts[other]
    /\ After(r).transactions = transactions

\* the database refuses the patched row: a null in a NOT NULL column, or a
\* balance the Numeric column does not hold
Refused(body) ==
    \/ "name" \in body.fields_set /\ body.name = None
    \/ "account_type" \in body.fields_set /\ body.account_type = None
    \/ "balance" \in body.fields_set /\ Overflows(dialect, body.balance)

C27_LedgerRelativeToOpening ==
    /\ \A a \in DOMAIN accounts :
            accounts[a].balance - LedgerSum(a) = opening[a]
    /\ \A t \in transactions : ~accounts[t.account_id].is_active =>
            /\ \A body \in LedgerPatches : "amount" \in body.fields_set =>
                    After(update_user_transaction(Db, t.user_id, t.id, body))
                        .accounts[t.account_id].balance
                    = accounts[t.account_id].balance + The(body.amount) - t.amount
            /\ After(delete_user_transaction(Db, t.user_id, t.id))
                    .accounts[t.account_id].balance
               = accounts[t.account_id].balance - t.amount

\* a closed account with a patched transaction on it
C27_Witness ==
    \E t \in transactions :
        /\ ~accounts[t.account_id].is_active
        /\ t.amount \notin {2, -2}
        /\ opening[t.account_id] # 0

\* ------------------------------------------------------------------ C28
RECURSIVE SumBalances(_, _)
SumBalances(accs, ids) ==
    IF ids = {} THEN 0
    ELSE LET a == CHOOSE a \in ids : TRUE IN accs[a].balance + SumBalances(accs, ids \ {a})

\* the balances of all accounts of user_id, active or not, added up
OwnedTotal(d, user_id) ==
    SumBalances(d.accounts, {a \in DOMAIN d.accounts : d.accounts[a].user_id = user_id})

\* C28: a successful transfer create leaves the sum of the balances of all
\* of the owner's accounts unchanged, and adds two legs whose amounts sum
\* to zero.
C28_TransferConservation ==
    \A u \in Users, body \in LedgerBodies :
        LET r == create_user_transaction(Db, u, body, enabled, NoReply) IN
        body.transaction_type = "transfer" /\ r.status = 201 =>
            /\ OwnedTotal(After(r), u) = OwnedTotal(Db, u)
            /\ Cardinality(Added(r)) = 2
            /\ SumAmounts(Added(r)) = 0

\* a transfer has moved money between two accounts of one owner
C28_Witness ==
    \E t, s \in transactions :
        /\ t.transaction_type = "transfer" /\ s.transaction_type = "transfer"
        /\ t.id + 1 = s.id
        /\ t.amount + s.amount = 0
        /\ accounts[t.account_id].balance = opening[t.account_id] + t.amount
        /\ accounts[s.account_id].balance = opening[s.account_id] + s.amount
        /\ accounts[t.account_id].user_id = accounts[s.account_id].user_id

\* ------------------------------------------------------------------ C29
\* every row is its account's owner's, and a transfer leg's other account is
\* that owner's too
RowsAreOwners ==
    \A t \in transactions :
        /\ t.account_id \in DOMAIN accounts
        /\ accounts[t.account_id].user_id = t.user_id
        /\ t.transaction_type = "transfer" =>
                /\ t.transfer_account_id # None
                /\ The(t.transfer_account_id) \in DOMAIN accounts
                /\ accounts[The(t.transfer_account_id)].user_id = t.user_id

\* committing r changes no account and no row of a user other than user_id
LeavesOthersAlone(r, user_id) ==
    /\ \A a \in DOMAIN accounts :
            accounts[a].user_id # user_id => After(r).accounts[a] = accounts[a]
    /\ {t \in After(r).transactions : t.user_id # user_id}
            = {t \in transactions : t.user_id # user_id}

\* C29: every persisted transaction's user_id is the owner of its account
\* and, for a transfer leg, of its transfer account; and no create, update
\* or delete issued by a user changes a balance or a transaction row of
\* another user.
C29_OwnershipIsolation ==
    /\ RowsAreOwners
    /\ \A u \in Users :
            /\ \A body \in LedgerBodies :
                    LeavesOthersAlone(create_user_transaction(Db, u, body, enabled, NoReply), u)
            /\ \A t \in TransactionIds :
                    /\ \A body \in LedgerPatches :
                            LeavesOthersAlone(update_user_transaction(Db, u, t, body), u)
                    /\ LeavesOthersAlone(delete_user_transaction(Db, u, t), u)

\* each of the two users has an account with a transaction on it
C29_Witness ==
    \E t, s \in transactions :
        /\ t.user_id # s.user_id
        /\ accounts[t.account_id].user_id # accounts[s.account_id].user_id

\* ------------------------------------------------------------------ C30
\* the database d after user_id's requests: patches, in order, on a
\* transaction, and its delete
RECURSIVE Patched(_, _, _, _)
Patched(d, user_id, transaction_id, patches) ==
    IF patches = <<>> THEN d
    ELSE Patched(Flush(update_user_transaction(d, user_id, transaction_id, Head(patches)).writes, d),
                 user_id, transaction_id, Tail(patches))

Removed(d, user_id, transaction_id) ==
    Flush(delete_user_transaction(d, user_id, transaction_id).writes, d)

\* up to two patches in a row
PatchRuns == UNION {[1..n -> LedgerPatches] : n \in 0..2}

\* C30: an income or expense that is created, patched any number of times
\* and then deleted leaves every balance and the set of persisted
\* transactions as they were before the create; a transfer whose two legs
\* are deleted, in either order, leaves both balances as they were.
C30_CreateDeleteRoundTrip ==
    \A u \in Users, body \in LedgerBodies :
        LET r == create_user_transaction(Db, u, body, enabled, NoReply) IN
        r.status = 201 =>
            IF body.transaction_type = "transfer"
            THEN \A first \in {r.id, r.id + 1} :
                    LET second == IF first = r.id THEN r.id + 1 ELSE r.id
                        d == Removed(Removed(After(r), u, first), u, second)
                    IN  d.accounts = accounts /\ d.transactions = transactions
            ELSE \A patches \in PatchRuns :
                    LET d == Removed(Patched(After(r), u, r.id, patches), u, r.id)
                    IN  d.accounts = accounts /\ d.transactions = transactions

\* two rows were created and both are gone, with every balance back at the
\* opening balance
C30_Witness ==
    /\ next_id = 3
    /\ transactions = {}
    /\ DOMAIN accounts # {}
    /\ \A a \in DOMAIN accounts : accounts[a].balance = opening[a] /\ opening[a] # 0

====
